---------------------------- MODULE Spec2Model ----------------------------
(***************************************************************************)
(* Model of beevelop/uniqush.js (lib/uniqush.js): a client handle that     *)
(* holds one endpoint and turns each public operation into one call of the *)
(* HTTP transport `got`, forwarding the promise it gets back.              *)
(*                                                                         *)
(* JavaScript values are tagged records (t = the typeof-like tag), so that *)
(* true, 1 and 'true' stay three different values.  An object literal is   *)
(* Obj(m), m a function from key to value; Ref(o) is a reference to an     *)
(* object the caller keeps and may hand to several calls.                  *)
(*                                                                         *)
(* handle is what the caller got from the module's export: how the export  *)
(* was invoked, the endpoint it was given and what came back.  endpoint is *)
(* the field this.endpoint of the instance.                                *)
(***************************************************************************)
EXTENDS Naturals, Sequences, FiniteSets, TLC

VARIABLES endpoint, handle, calls, heap

vars == <<endpoint, handle, calls, heap>>

-----------------------------------------------------------------------------
(* Bounds *)

\* number of calls the caller holds at the same time (in flight or settled)
MaxCalls == 2

Slots == 1..MaxCalls

-----------------------------------------------------------------------------
(* JavaScript values *)

Undefined == [t |-> "undefined"]
Null      == [t |-> "null"]
Bool(b)   == [t |-> "boolean", v |-> b]
Num(n)    == [t |-> "number", v |-> n]
Str(s)    == [t |-> "string", v |-> s]
Obj(m)    == [t |-> "object", v |-> m]
Ref(o)    == [t |-> "ref", v |-> o]

\* the empty object literal {}
EmptyObject == <<>>

\* ToBoolean, as applied by the || operator
ToBoolean(x) ==
    CASE x.t = "undefined" -> FALSE
      [] x.t = "null"      -> FALSE
      [] x.t = "boolean"   -> x.v
      [] x.t = "number"    -> x.v # 0
      [] x.t = "string"    -> x.v # ""
      [] OTHER             -> TRUE

\* a || b
Or(a, b) == IF ToBoolean(a) THEN a ELSE b

\* obj.key = val on a mapping: the key is added, or its value replaced
Assign(obj, key, val) ==
    [k \in DOMAIN obj \cup {key} |-> IF k = key THEN val ELSE obj[k]]

\* the mapping an object value denotes in heap h
Content(x, h) == IF x.t = "ref" THEN h[x.v] ELSE x.v

-----------------------------------------------------------------------------
(* Inputs *)

Endpoints == {"http://uniqush.beevelop.com", "http://localhost:9898"}

\* argument triples of the convenience operations: three different strings,
\* and three different values a default or a conversion would change (an
\* empty string, an omitted argument, the number 0)
Triples == {<<Str("unicorn"), Str("second"), Str("third")>>,
            <<Str(""), Undefined, Num(0)>>}

\* the values addAPNs is given as sandbox (Undefined: argument omitted)
SandboxArgs == {Undefined, Bool(TRUE), Bool(FALSE), Null, Num(0), Num(1),
                Str(""), Str("yes")}

\* what addAPNs is given: every sandbox value with the first triple, and the
\* other triples with sandbox omitted
AddAPNsArgs ==
    {Append(<<Str("unicorn"), Str("second"), Str("third")>>, sandbox) :
         sandbox \in SandboxArgs}
    \cup {Append(a, Undefined) : a \in Triples}

\* what a generic operation is given as params: omitted (Undefined), or a
\* mapping that names neither a service nor a subscriber
GenericParams ==
    {Undefined,
     Obj([pushservicetype |-> Str("gcm"), regid |-> Str("third")])}

\* the one object the caller keeps and reuses across push calls; it already
\* names a service and a subscriber, as it does after an earlier push
ObjIds == {"o1"}

InitialHeap ==
    [o \in ObjIds |-> [title      |-> Str("Hi"),
                       service    |-> Str("pegasus"),
                       subscriber |-> Str("ariadne")]]

\* what push is given as (service, subscriber, params): params omitted
\* (Undefined), an object literal without service and subscriber, and the
\* object the caller keeps, pushed to two different subscribers
PushArgs ==
    {<<Str("unicorn"), Str("dom.cobb"), Undefined>>,
     <<Str("unicorn"), Str("dom.cobb"), Obj([title |-> Str("Hi")])>>}
    \cup {<<Str("unicorn"), Str("dom.cobb"), Ref(o)>> : o \in ObjIds}
    \cup {<<Str("pegasus"), Str("ariadne"), Ref(o)>> : o \in ObjIds}

\* response bodies and transport errors
Bodies == {"uniqush-push 1.5.2", "[Success]"}
Errors == {"ECONNREFUSED", "HTTPError 404"}

-----------------------------------------------------------------------------
(* The transport: got(url, opts) *)

Pending == [state |-> "pending", value |-> Undefined]

\* The request got issues for got(url, opts), h being the heap at the time
\* of the call.  The client never names a method, so got chooses it: POST
\* when opts carries a body, GET otherwise.  got reads the body during the
\* call, so what is sent is the body's content at that time.
got(url, opts, h) ==
    LET body == IF opts.t = "object" /\ "body" \in DOMAIN opts.v
                THEN opts.v.body ELSE Undefined
    IN  [url    |-> url,
         method |-> IF ToBoolean(body) THEN "POST" ELSE "GET",
         body   |-> body,
         sent   |-> IF body.t = "ref" THEN Obj(h[body.v]) ELSE body]

\* the response object got resolves with, for a response body b
Response(b) == Obj([body |-> Str(b), statusCode |-> Num(200)])

\* the error got rejects with
TransportError(e) == [t |-> "error", v |-> e]

-----------------------------------------------------------------------------
(* class Uniqush.  An operation's value is the sequence of got calls that   *)
(* evaluating it makes, each <<url, opts>> as a record.                     *)

\* a constructor that stores the endpoint with the route separator appended
constructorWithSeparator(ep) == ep \o "/"

constructor(ep) == ep

\* The export, module.exports = Uniqush, is the class itself.  Invoked with
\* `new` it runs the constructor; a class constructor invoked as a plain
\* function throws a TypeError before its body runs, and no instance exists.
Uniqush(how, ep) ==
    IF how = "new"
    THEN [result |-> "instance", endpoint |-> constructor(ep)]
    ELSE [result |-> "TypeError", endpoint |-> ""]

_post(route, body) ==
    << [url |-> endpoint \o "/" \o route, opts |-> Obj([body |-> body])] >>

_get(route) ==
    << [url |-> endpoint \o "/" \o route, opts |-> Undefined] >>

\* response => response
onFulfilledWhole(response) == response

\* response => response.body
onFulfilled(response) == response.v.body

\* a client that catches the transport's error and rejects with its own
thenWrapping(promise) ==
    IF promise.state = "fulfilled"
    THEN [state |-> "fulfilled", value |-> onFulfilled(promise.value)]
    ELSE [state |-> "rejected",
          value |-> [t |-> "error", v |-> "UniqushError"]]

\* promise.then(response => response.body): the promise the operation returns,
\* once `promise` has settled.  No rejection handler is given.
then(promise) ==
    IF promise.state = "fulfilled"
    THEN [state |-> "fulfilled", value |-> onFulfilled(promise.value)]
    ELSE [state |-> "rejected", value |-> promise.value]

version == _get("version")

stop == _get("stop")

addPSP(params) == _post("addpsp", params)

\* addGCM with the two credentials written into each other's field
addGCMSwapped(service, projectId, apiKey) ==
    addPSP(Obj([service         |-> service,
                projectid       |-> apiKey,
                apikey          |-> projectId,
                pushservicetype |-> Str("gcm")]))

addGCM(service, projectId, apiKey) ==
    addPSP(Obj([service         |-> service,
                projectid       |-> projectId,
                apikey          |-> apiKey,
                pushservicetype |-> Str("gcm")]))

\* addAPNs without the default: sandbox is sent as it was given
addAPNsNoDefault(service, cert, key, sandbox) ==
    addPSP(Obj([service         |-> service,
                pushservicetype |-> Str("apns"),
                cert            |-> cert,
                key             |-> key,
                sandbox         |-> sandbox]))

addAPNs(service, cert, key, sandbox) ==
    addPSP(Obj([service         |-> service,
                pushservicetype |-> Str("apns"),
                cert            |-> cert,
                key             |-> key,
                sandbox         |-> Or(sandbox, Bool(FALSE))]))

addADM(service, clientId, clientSecret) ==
    addPSP(Obj([service         |-> service,
                pushservicetype |-> Str("adm"),
                clientid        |-> clientId,
                clientsecret    |-> clientSecret]))

rmPSP(params) == _post("rmpsp", params)

rmGCM(service, projectId, apiKey) ==
    rmPSP(Obj([service         |-> service,
               projectid       |-> projectId,
               pushservicetype |-> Str("gcm"),
               apikey          |-> apiKey]))

\* rmAPNs that names the sandbox too, as the production environment
rmAPNsWithSandbox(service, cert, key) ==
    rmPSP(Obj([service         |-> service,
               pushservicetype |-> Str("apns"),
               cert            |-> cert,
               key             |-> key,
               sandbox         |-> Bool(FALSE)]))

rmAPNs(service, cert, key) ==
    rmPSP(Obj([service         |-> service,
               pushservicetype |-> Str("apns"),
               cert            |-> cert,
               key             |-> key]))

rmADM(service, clientId, clientSecret) ==
    rmPSP(Obj([service         |-> service,
               pushservicetype |-> Str("adm"),
               clientid        |-> clientId,
               clientsecret    |-> clientSecret]))

subscribe(params) == _post("subscribe", params)

\* subscribeGCM that leaves the subscriber out
subscribeGCMNoSubscriber(service, subscriber, regId) ==
    subscribe(Obj([service         |-> service,
                   pushservicetype |-> Str("gcm"),
                   regid           |-> regId]))

subscribeGCM(service, subscriber, regId) ==
    subscribe(Obj([service         |-> service,
                   pushservicetype |-> Str("gcm"),
                   subscriber      |-> subscriber,
                   regid           |-> regId]))

subscribeAPNs(service, subscriber, devToken) ==
    subscribe(Obj([service         |-> service,
                   pushservicetype |-> Str("apns"),
                   subscriber      |-> subscriber,
                   devtoken        |-> devToken]))

subscribeADM(service, subscriber, regId) ==
    subscribe(Obj([service         |-> service,
                   pushservicetype |-> Str("adm"),
                   subscriber      |-> subscriber,
                   regid           |-> regId]))

unsubscribe(params) == _post("unsubscribe", params)

unsubscribeGCM(service, subscriber, regId) ==
    unsubscribe(Obj([service         |-> service,
                     pushservicetype |-> Str("gcm"),
                     subscriber      |-> subscriber,
                     regid           |-> regId]))

\* unsubscribeAPNs sending the token under the GCM/ADM field name
unsubscribeAPNsRegid(service, subscriber, devToken) ==
    unsubscribe(Obj([service         |-> service,
                     pushservicetype |-> Str("apns"),
                     subscriber      |-> subscriber,
                     regid           |-> devToken]))

unsubscribeAPNs(service, subscriber, devToken) ==
    unsubscribe(Obj([service         |-> service,
                     pushservicetype |-> Str("apns"),
                     subscriber      |-> subscriber,
                     devtoken        |-> devToken]))

unsubscribeADM(service, subscriber, regId) ==
    unsubscribe(Obj([service         |-> service,
                     pushservicetype |-> Str("adm"),
                     subscriber      |-> subscriber,
                     regid           |-> regId]))

\* push without the default for an omitted params
pushParamsNoDefault(params) == params

\* params = params || {}
pushParams(params) == Or(params, Obj(EmptyObject))

\* push that keeps a service the mapping already names
pushObjectKeepService(service, subscriber, params, h) ==
    LET m == Content(pushParams(params), h) IN
    Assign(IF "service" \in DOMAIN m THEN m ELSE Assign(m, "service", service),
           "subscriber", subscriber)

\* the mapping params denotes after params.service = service and
\* params.subscriber = subscriber
\* a push that leaves a subscriber the mapping already names in place
pushObjectKeepSubscriber(service, subscriber, params, h) ==
    LET before == Content(pushParams(params), h)
    IN  Assign(Assign(before, "service", service), "subscriber",
               IF "subscriber" \in DOMAIN before THEN before.subscriber
               ELSE subscriber)

pushObject(service, subscriber, params, h) ==
    Assign(Assign(Content(pushParams(params), h), "service", service),
           "subscriber", subscriber)

\* the heap after push's two assignments: an object the caller keeps is
\* changed in place, an object literal lives only in the call
\* a push that fills in a copy of params and leaves the caller's object alone
pushHeapCopy(service, subscriber, params, h) == h

pushHeap(service, subscriber, params, h) ==
    IF pushParams(params).t = "ref"
    THEN [h EXCEPT ![params.v] = pushObject(service, subscriber, params, h)]
    ELSE h

\* params.service = service in strict mode, params being neither an object
\* nor falsy: the assignment throws a TypeError and push makes no got call
pushThrows(params) == pushParams(params).t \notin {"object", "ref"}

push(service, subscriber, params, h) ==
    IF pushThrows(params)
    THEN << >>
    ELSE _post("push",
               IF pushParams(params).t = "ref"
               THEN params
               ELSE Obj(pushObject(service, subscriber, params, h)))

-----------------------------------------------------------------------------
(* State machine.  calls[i] is the i-th call the caller holds: the          *)
(* operation and its arguments, the requests got issued for it, the promise *)
(* got returned (p1) and the promise the operation returned (p2).           *)

NoCall == [op |-> "none", args |-> <<>>, reqs |-> <<>>,
           p1 |-> Pending, p2 |-> Pending]

\* the module is loaded and its export has not been invoked: there is no
\* instance, and so no this.endpoint, yet
NoHandle == [how |-> "none", given |-> "", result |-> "none"]

Init ==
    /\ endpoint = ""
    /\ handle = NoHandle
    /\ calls = [i \in Slots |-> NoCall]
    /\ heap = InitialHeap

\* the caller invokes the export, with `new` or as a plain function
Invoke(how, ep) ==
    /\ handle.result = "none"
    /\ handle' = [how |-> how, given |-> ep, result |-> Uniqush(how, ep).result]
    /\ endpoint' = Uniqush(how, ep).endpoint
    /\ UNCHANGED <<calls, heap>>

\* const uniqush = new Uniqush(ep)
NewUniqush(ep) == Invoke("new", ep)

\* const uniq = require('uniqush.js')(ep)
CallUniqush(ep) == Invoke("call", ep)

\* slot i holds no call, or a call whose outcome the caller has received
Free(i) == calls[i].op = "none" \/ calls[i].p2.state # "pending"

\* The synchronous part of an operation: its got calls are made, with the
\* heap as the operation left it, and the promises are pending.  Slot numbers
\* only name the calls, so a new call takes the lowest free one.
Start(i, op, args, gotCalls, h) ==
    /\ handle.result = "instance"
    /\ Free(i)
    /\ \A j \in Slots : j < i => ~Free(j)
    /\ heap' = h
    /\ calls' = [calls EXCEPT ![i] =
                   [op   |-> op,
                    args |-> args,
                    reqs |-> [k \in 1..Len(gotCalls) |->
                                 got(gotCalls[k].url, gotCalls[k].opts, h)],
                    p1   |-> Pending,
                    p2   |-> Pending]]
    /\ UNCHANGED <<endpoint, handle>>

\* An operation that throws before it returns: the caller gets no promise.
Throw(i, op, args, error) ==
    /\ handle.result = "instance"
    /\ Free(i)
    /\ \A j \in Slots : j < i => ~Free(j)
    /\ calls' = [calls EXCEPT ![i] =
                   [op   |-> op,
                    args |-> args,
                    reqs |-> << >>,
                    p1   |-> Pending,
                    p2   |-> [state |-> "threw",
                              value |-> [t |-> "error", v |-> error]]]]
    /\ UNCHANGED <<endpoint, handle, heap>>

CallVersion(i) == Start(i, "version", <<>>, version, heap)

CallStop(i) == Start(i, "stop", <<>>, stop, heap)

CallAddPSP(i) ==
    \E params \in GenericParams :
        Start(i, "addPSP", <<params>>, addPSP(params), heap)

CallAddGCM(i) ==
    \E a \in Triples :
        Start(i, "addGCM", a, addGCM(a[1], a[2], a[3]), heap)

CallAddAPNs(i) ==
    \E a \in AddAPNsArgs :
        Start(i, "addAPNs", a, addAPNs(a[1], a[2], a[3], a[4]), heap)

CallAddADM(i) ==
    \E a \in Triples :
        Start(i, "addADM", a, addADM(a[1], a[2], a[3]), heap)

CallRmPSP(i) ==
    \E params \in GenericParams :
        Start(i, "rmPSP", <<params>>, rmPSP(params), heap)

CallRmGCM(i) ==
    \E a \in Triples :
        Start(i, "rmGCM", a, rmGCM(a[1], a[2], a[3]), heap)

CallRmAPNs(i) ==
    \E a \in Triples :
        Start(i, "rmAPNs", a, rmAPNs(a[1], a[2], a[3]), heap)

CallRmADM(i) ==
    \E a \in Triples :
        Start(i, "rmADM", a, rmADM(a[1], a[2], a[3]), heap)

CallSubscribe(i) ==
    \E params \in GenericParams :
        Start(i, "subscribe", <<params>>, subscribe(params), heap)

CallSubscribeGCM(i) ==
    \E a \in Triples :
        Start(i, "subscribeGCM", a, subscribeGCM(a[1], a[2], a[3]), heap)

CallSubscribeAPNs(i) ==
    \E a \in Triples :
        Start(i, "subscribeAPNs", a, subscribeAPNs(a[1], a[2], a[3]), heap)

CallSubscribeADM(i) ==
    \E a \in Triples :
        Start(i, "subscribeADM", a, subscribeADM(a[1], a[2], a[3]), heap)

CallUnsubscribe(i) ==
    \E params \in GenericParams :
        Start(i, "unsubscribe", <<params>>, unsubscribe(params), heap)

CallUnsubscribeGCM(i) ==
    \E a \in Triples :
        Start(i, "unsubscribeGCM", a, unsubscribeGCM(a[1], a[2], a[3]), heap)

CallUnsubscribeAPNs(i) ==
    \E a \in Triples :
        Start(i, "unsubscribeAPNs", a, unsubscribeAPNs(a[1], a[2], a[3]), heap)

CallUnsubscribeADM(i) ==
    \E a \in Triples :
        Start(i, "unsubscribeADM", a, unsubscribeADM(a[1], a[2], a[3]), heap)

CallPush(i) ==
    \E a \in PushArgs :
        IF pushThrows(a[3])
        THEN Throw(i, "push", a, "TypeError")
        ELSE Start(i, "push", a, push(a[1], a[2], a[3], heap),
                   pushHeap(a[1], a[2], a[3], heap))

\* a client that sends the request again when the transport fails
SettledRetry(c, outcome) ==
    IF outcome.state = "rejected"
    THEN [c EXCEPT !.reqs = Append(@, @[1])]
    ELSE [c EXCEPT !.p1 = outcome, !.p2 = then(outcome)]

\* call c once got's promise has settled as `outcome` and the reaction that
\* .then(...) registered on it has run
Settled(c, outcome) == [c EXCEPT !.p1 = outcome, !.p2 = then(outcome)]

\* the transport completes call i's request with response body b
GotResolve(i, b) ==
    /\ calls[i].op # "none"
    /\ calls[i].p2.state = "pending"
    /\ calls' = [calls EXCEPT ![i] =
                   Settled(@, [state |-> "fulfilled", value |-> Response(b)])]
    /\ UNCHANGED <<endpoint, handle, heap>>

\* the transport fails call i's request with error e
GotReject(i, e) ==
    /\ calls[i].op # "none"
    /\ calls[i].p2.state = "pending"
    /\ calls' = [calls EXCEPT ![i] =
                   Settled(@, [state |-> "rejected",
                               value |-> TransportError(e)])]
    /\ UNCHANGED <<endpoint, handle, heap>>

Next ==
    \/ \E ep \in Endpoints : NewUniqush(ep)
    \/ \E ep \in Endpoints : CallUniqush(ep)
    \/ \E i \in Slots :
        \/ CallVersion(i)
        \/ CallStop(i)
        \/ CallAddPSP(i)
        \/ CallAddGCM(i)
        \/ CallAddAPNs(i)
        \/ CallAddADM(i)
        \/ CallRmPSP(i)
        \/ CallRmGCM(i)
        \/ CallRmAPNs(i)
        \/ CallRmADM(i)
        \/ CallSubscribe(i)
        \/ CallSubscribeGCM(i)
        \/ CallSubscribeAPNs(i)
        \/ CallSubscribeADM(i)
        \/ CallUnsubscribe(i)
        \/ CallUnsubscribeGCM(i)
        \/ CallUnsubscribeAPNs(i)
        \/ CallUnsubscribeADM(i)
        \/ CallPush(i)
        \/ \E b \in Bodies : GotResolve(i, b)
        \/ \E e \in Errors : GotReject(i, e)

Spec == Init /\ [][Next]_vars

\* A caller that also passes push a params value that is not a mapping: a
\* non-empty string, and the number 0.
MalformedPushArgs ==
    {<<Str("unicorn"), Str("dom.cobb"), Str("hello")>>,
     <<Str("unicorn"), Str("dom.cobb"), Num(0)>>}

CallPushMalformed(i) ==
    \E a \in MalformedPushArgs :
        IF pushThrows(a[3])
        THEN Throw(i, "push", a, "TypeError")
        ELSE Start(i, "push", a, push(a[1], a[2], a[3], heap),
                   pushHeap(a[1], a[2], a[3], heap))

NextAnyArgs ==
    \/ Next
    \/ \E i \in Slots : CallPushMalformed(i)

SpecAnyArgs == Init /\ [][NextAnyArgs]_vars

-----------------------------------------------------------------------------
(* Properties *)

Held == {i \in Slots : calls[i].op # "none"}

\* the request of call i, and the descriptor it carried
Req(i) == calls[i].reqs[1]
Sent(i) == calls[i].reqs[1].sent

GenericOps == {"addPSP", "rmPSP", "subscribe", "unsubscribe"}
ProviderOps == {"addGCM", "addAPNs", "addADM", "rmGCM", "rmAPNs", "rmADM"}
SubscriptionOps == {"subscribeGCM", "subscribeAPNs", "subscribeADM",
                    "unsubscribeGCM", "unsubscribeAPNs", "unsubscribeADM"}

ClaimedRoute(op) ==
    CASE op \in {"version", "stop", "subscribe", "unsubscribe", "push"} ->
             op
      [] op \in {"addPSP", "addGCM", "addAPNs", "addADM"} -> "addpsp"
      [] op \in {"rmPSP", "rmGCM", "rmAPNs", "rmADM"} -> "rmpsp"
      [] op \in {"subscribeGCM", "subscribeAPNs", "subscribeADM"} ->
             "subscribe"
      [] OTHER -> "unsubscribe"

ClaimedVerb(op) == IF op \in {"version", "stop"} THEN "GET" ELSE "POST"

\* C2: every request goes to endpoint + "/" + the operation's route with the
\* operation's verb (GET without a body for version and stop, POST for the
\* rest), whatever the arguments are, a generic operation called without its
\* params included.
C2_RouteAndVerb ==
    \A i \in Held :
        /\ Len(calls[i].reqs) = 1
        /\ Req(i).url = endpoint \o "/" \o ClaimedRoute(calls[i].op)
        /\ Req(i).method = ClaimedVerb(calls[i].op)
        /\ calls[i].op \in {"version", "stop"} => Req(i).body = Undefined

\* C3: addGCM sends exactly {service, projectid, apikey, pushservicetype:
\* 'gcm'}, addADM exactly {service, clientid, clientsecret, pushservicetype:
\* 'adm'}, and addAPNs a descriptor with exactly the fields service, cert, key,
\* sandbox and pushservicetype: 'apns'; service and the credentials are the
\* arguments as passed.
C3_AddDescriptors ==
    \A i \in Held :
        LET a == calls[i].args IN
        /\ calls[i].op = "addGCM" =>
               Sent(i) = Obj([service |-> a[1], projectid |-> a[2],
                              apikey |-> a[3], pushservicetype |-> Str("gcm")])
        /\ calls[i].op = "addADM" =>
               Sent(i) = Obj([service |-> a[1], clientid |-> a[2],
                              clientsecret |-> a[3],
                              pushservicetype |-> Str("adm")])
        /\ calls[i].op = "addAPNs" =>
               /\ Sent(i).t = "object"
               /\ DOMAIN Sent(i).v =
                      {"service", "cert", "key", "sandbox", "pushservicetype"}
               /\ Sent(i).v.service = a[1]
               /\ Sent(i).v.cert = a[2]
               /\ Sent(i).v.key = a[3]
               /\ Sent(i).v.pushservicetype = Str("apns")

\* C3 witness: an addGCM call and an addAPNs call have each sent their
\* descriptor.
C3_Witness ==
    \E i, j \in Held :
        /\ calls[i].op = "addGCM"
        /\ Sent(i).v.projectid = Str("second")
        /\ Sent(i).v.apikey = Str("third")
        /\ calls[j].op = "addAPNs"
        /\ Sent(j).v.cert = Str("second")

FalsyValues == {Undefined, Bool(FALSE), Null, Num(0), Str("")}

\* C4 as stated: the sandbox field addAPNs sends is true when the caller
\* passes true and false for every other value.
C4_SandboxTrueOrFalse ==
    \A i \in Held :
        calls[i].op = "addAPNs" =>
            Sent(i).v.sandbox =
                IF calls[i].args[4] = Bool(TRUE) THEN Bool(TRUE)
                                                 ELSE Bool(FALSE)

\* C4 amended: the sandbox field addAPNs sends is false when the caller omits
\* the argument or passes a falsy value (false, null, 0, ''), and is the
\* caller's value itself otherwise (true, but also 1 or a non-empty string).
C4_SandboxDefault ==
    \A i \in Held :
        calls[i].op = "addAPNs" =>
            Sent(i).v.sandbox =
                IF calls[i].args[4] \in FalsyValues THEN Bool(FALSE)
                                                    ELSE calls[i].args[4]

\* C4 witness: addAPNs called with sandbox omitted has sent false, and
\* addAPNs called with sandbox 1 has sent 1.
C4_Witness ==
    \E i, j \in Held :
        /\ calls[i].op = "addAPNs"
        /\ calls[i].args[4] = Undefined
        /\ Sent(i).v.sandbox = Bool(FALSE)
        /\ calls[j].op = "addAPNs"
        /\ calls[j].args[4] = Num(1)
        /\ Sent(j).v.sandbox = Num(1)

\* the descriptor the specification gives (un)subscribe<kind>
SubscriptionDescriptor(kind, a) ==
    IF kind = "apns"
    THEN Obj([service |-> a[1], pushservicetype |-> Str("apns"),
              subscriber |-> a[2], devtoken |-> a[3]])
    ELSE Obj([service |-> a[1], pushservicetype |-> Str(kind),
              subscriber |-> a[2], regid |-> a[3]])

KindOf(op) ==
    CASE op \in {"subscribeGCM", "unsubscribeGCM"} -> "gcm"
      [] op \in {"subscribeAPNs", "unsubscribeAPNs"} -> "apns"
      [] OTHER -> "adm"

\* C5: subscribeGCM/ADM and unsubscribeGCM/ADM send exactly {service,
\* pushservicetype, subscriber, regid}, subscribeAPNs and unsubscribeAPNs
\* exactly {service, pushservicetype: 'apns', subscriber, devtoken}, every
\* value being the argument as passed; and an unsubscribe call sends the same
\* descriptor as the subscribe call of the same kind with the same arguments.
C5_SubscriptionDescriptors ==
    /\ \A i \in Held :
           calls[i].op \in SubscriptionOps =>
               Sent(i) = SubscriptionDescriptor(KindOf(calls[i].op),
                                                calls[i].args)
    /\ \A i, j \in Held :
           /\ calls[i].op \in {"subscribeGCM", "subscribeAPNs", "subscribeADM"}
           /\ calls[j].op \in {"unsubscribeGCM", "unsubscribeAPNs",
                               "unsubscribeADM"}
           /\ KindOf(calls[i].op) = KindOf(calls[j].op)
           /\ calls[i].args = calls[j].args
           => Sent(i) = Sent(j)

\* C5 witness: subscribeAPNs and unsubscribeAPNs called with the same
\* arguments have both sent their descriptor, token under devtoken.
C5_Witness ==
    \E i, j \in Held :
        /\ calls[i].op = "subscribeAPNs"
        /\ calls[j].op = "unsubscribeAPNs"
        /\ calls[i].args = calls[j].args
        /\ Sent(i).v.devtoken = calls[i].args[3]
        /\ Sent(j).v.devtoken = calls[j].args[3]

\* a step in which call i is started
Started(i) ==
    /\ Free(i)
    /\ calls'[i].op # "none"
    /\ calls'[i].p2.state = "pending"

\* C6: when push(service, subscriber, params) is given a mapping, the body it
\* sends has service and subscriber equal to the two arguments, whatever the
\* mapping held under those keys, every other key of the mapping with the
\* value it had before the call, and no key besides.
C6_PushBody ==
    [][\A i \in Slots :
           (Started(i) /\ calls'[i].op = "push"
                       /\ calls'[i].args[3] # Undefined) =>
               LET a      == calls'[i].args
                   before == Content(a[3], heap)
                   body   == calls'[i].reqs[1].sent
                   others == DOMAIN before \ {"service", "subscriber"}
               IN  /\ Len(calls'[i].reqs) = 1
                   /\ body.t = "object"
                   /\ DOMAIN body.v = others \cup {"service", "subscriber"}
                   /\ body.v.service = a[1]
                   /\ body.v.subscriber = a[2]
                   /\ \A k \in others : body.v[k] = before[k]]_vars

\* C6 witness: the caller's object, which named a service and a subscriber,
\* has been pushed to two different subscribers; each request carried its
\* own call's two arguments in place of the ones the object named, and the
\* title.
C6_Witness ==
    \E i, j \in Held :
        /\ calls[i].op = "push"
        /\ calls[j].op = "push"
        /\ calls[i].args[3] = calls[j].args[3]
        /\ calls[i].args[3].t = "ref"
        /\ calls[i].args[1] # calls[j].args[1]
        /\ Sent(i).v = [title      |-> Str("Hi"),
                        service    |-> calls[i].args[1],
                        subscriber |-> calls[i].args[2]]
        /\ Sent(j).v = [title      |-> Str("Hi"),
                        service    |-> calls[j].args[1],
                        subscriber |-> calls[j].args[2]]

\* C7: push(service, subscriber) with params omitted does not throw; it issues
\* one POST to endpoint + "/push" whose body is exactly {service, subscriber}.
C7_PushWithoutParams ==
    \A i \in Held :
        (calls[i].op = "push" /\ calls[i].args[3] = Undefined) =>
            /\ calls[i].p2.state # "threw"
            /\ Len(calls[i].reqs) = 1
            /\ Req(i).method = "POST"
            /\ Req(i).url = endpoint \o "/" \o "push"
            /\ Sent(i) = Obj([service    |-> calls[i].args[1],
                              subscriber |-> calls[i].args[2]])

\* C7 witness: push without params has sent {service, subscriber} and its
\* request has been answered.
C7_Witness ==
    \E i \in Held :
        /\ calls[i].op = "push"
        /\ calls[i].args[3] = Undefined
        /\ DOMAIN Sent(i).v = {"service", "subscriber"}
        /\ calls[i].p2.state = "fulfilled"

\* C8: when the transport rejects a call's request with an error, the promise
\* the operation returned is rejected with that same error, and the call has
\* made no further request.
C8_RejectionPassesThrough ==
    \A i \in Held :
        calls[i].p1.state = "rejected" =>
            /\ calls[i].p2.state = "rejected"
            /\ calls[i].p2.value = calls[i].p1.value
            /\ \E e \in Errors : calls[i].p2.value = TransportError(e)
            /\ Len(calls[i].reqs) = 1

\* C8 witness: two calls of different operations have been rejected with the
\* two different transport errors.
C8_Witness ==
    \E i, j \in Held :
        /\ calls[i].op = "version"
        /\ calls[i].p2 = [state |-> "rejected",
                          value |-> TransportError("ECONNREFUSED")]
        /\ calls[j].op = "push"
        /\ calls[j].p2 = [state |-> "rejected",
                          value |-> TransportError("HTTPError 404")]

\* C9: when the transport answers a call's request with a response whose body
\* is B, the promise the operation returned is fulfilled with the string B:
\* not with the response object, and not with another string.
C9_ResolvesToBody ==
    \A i \in Held :
        calls[i].p1.state = "fulfilled" =>
            \E b \in Bodies :
                /\ calls[i].p1.value = Response(b)
                /\ calls[i].p2 = [state |-> "fulfilled", value |-> Str(b)]

\* C9 witness: two calls of different operations have been fulfilled with the
\* two different response bodies.
C9_Witness ==
    \E i, j \in Held :
        /\ calls[i].op = "version"
        /\ calls[i].p2 = [state |-> "fulfilled",
                          value |-> Str("uniqush-push 1.5.2")]
        /\ calls[j].op = "addGCM"
        /\ calls[j].p2 = [state |-> "fulfilled", value |-> Str("[Success]")]

\* whether the descriptor call i sent has field k
HasField(i, k) == Sent(i).t = "object" /\ k \in DOMAIN Sent(i).v

\* a call of a generic operation that was not given a mapping
NoMapping(i) == calls[i].op \in GenericOps /\ calls[i].args[1].t # "object"

\* C10 as stated: every request of a provider-management or subscription
\* operation, the generic ones given an arbitrary mapping included, carries a
\* service field, and every request of a subscription operation or of push
\* carries a subscriber field.  (A generic operation called without params
\* sends no descriptor at all; those calls are left aside here.)
C10_ServiceAndSubscriber ==
    \A i \in Held :
        ~NoMapping(i) =>
            /\ calls[i].op \in ProviderOps \cup SubscriptionOps
                                            \cup GenericOps =>
                   HasField(i, "service")
            /\ calls[i].op \in SubscriptionOps \cup {"subscribe",
                                                     "unsubscribe", "push"} =>
                   HasField(i, "subscriber")

\* C10 amended: every request of a convenience provider-management or
\* subscription operation carries a service field, every request of a
\* convenience subscription operation carries a subscriber field, and every
\* request of push carries both; a generic operation (addPSP, rmPSP,
\* subscribe, unsubscribe) sends what the caller passed, unchanged, so its
\* request has these fields only when the caller's mapping has them.
C10_ServiceAndSubscriberConvenience ==
    \A i \in Held :
        /\ calls[i].op \in ProviderOps \cup SubscriptionOps \cup {"push"} =>
               HasField(i, "service")
        /\ calls[i].op \in SubscriptionOps \cup {"push"} =>
               HasField(i, "subscriber")
        /\ calls[i].op \in GenericOps => Sent(i) = calls[i].args[1]

\* C10 witness: subscribeGCM has sent service and subscriber, and a generic
\* subscribe given a mapping without them has sent that mapping.
C10_Witness ==
    \E i, j \in Held :
        /\ calls[i].op = "subscribeGCM"
        /\ HasField(i, "service")
        /\ HasField(i, "subscriber")
        /\ calls[j].op = "subscribe"
        /\ calls[j].args[1].t = "object"
        /\ ~HasField(j, "service")
        /\ ~HasField(j, "subscriber")

-----------------------------------------------------------------------------
\* C11: while the caller holds an instance, this.endpoint is the value the
\* constructor was given, character for character; no operation and no
\* transport step changes it; and every request of every call is addressed
\* to that value, followed by "/" and the operation's route.
C11_EndpointFixed ==
    /\ [](handle.result = "instance" =>
            /\ endpoint = handle.given
            /\ \A i \in Held :
                 \A k \in 1..Len(calls[i].reqs) :
                     calls[i].reqs[k].url =
                         handle.given \o "/" \o ClaimedRoute(calls[i].op))
    /\ [][handle.result = "instance" => endpoint' = endpoint]_vars

\* an instance that has served two different operations, one of them failed
\* and the other still in flight
C11_Witness ==
    /\ handle.result = "instance"
    /\ endpoint = "http://localhost:9898"
    /\ \E i, j \in Held :
          /\ calls[i].op = "push"
          /\ calls[i].p2.state = "rejected"
          /\ calls[j].op = "version"
          /\ calls[j].p2.state = "pending"
          /\ Req(j).url = "http://localhost:9898/version"

-----------------------------------------------------------------------------
\* C12: in every interleaving of the calls made on one instance and of their
\* transport outcomes, a call's request depends on that call's own operation
\* and arguments only (its URL is the endpoint and the operation's route, two
\* calls with the same operation and arguments carry the same request, and a
\* push carries its own service and subscriber even when another push was
\* handed the same mapping), a call's result is the outcome of its own
\* request, and a step that starts or settles one call leaves the request
\* and the result of every other call as they were.
C12_OwnRequestOwnOutcome ==
    /\ [](\A i \in Held :
            /\ Len(calls[i].reqs) = 1
            /\ Req(i).url = endpoint \o "/" \o ClaimedRoute(calls[i].op)
            /\ \A j \in Held :
                  (calls[j].op = calls[i].op /\ calls[j].args = calls[i].args)
                      => calls[j].reqs = calls[i].reqs
            /\ calls[i].op = "push" =>
                  /\ Sent(i).v.service = calls[i].args[1]
                  /\ Sent(i).v.subscriber = calls[i].args[2]
            /\ calls[i].p2.state = "pending" => calls[i].p1.state = "pending"
            /\ calls[i].p2.state = "fulfilled" =>
                  /\ calls[i].p1.state = "fulfilled"
                  /\ calls[i].p2.value = calls[i].p1.value.v.body
            /\ calls[i].p2.state = "rejected" => calls[i].p2 = calls[i].p1)
    /\ [][\A i, j \in Slots :
             (i # j /\ calls'[i] # calls[i]) => calls'[j] = calls[j]]_vars

\* two pushes handed the same mapping were in flight together; one succeeded
\* and the other failed, and each request carried its own call's arguments
C12_Witness ==
    \E i, j \in Held :
        /\ calls[i].op = "push"
        /\ calls[j].op = "push"
        /\ calls[i].args[3] = Ref("o1")
        /\ calls[j].args[3] = Ref("o1")
        /\ calls[i].args[2] # calls[j].args[2]
        /\ Req(i).body = Req(j).body
        /\ Sent(i).v.subscriber = calls[i].args[2]
        /\ Sent(j).v.subscriber = calls[j].args[2]
        /\ calls[i].p2.state = "fulfilled"
        /\ calls[j].p2.state = "rejected"

-----------------------------------------------------------------------------
\* C13: once the caller has invoked the export as a plain function with an
\* endpoint, as the README example does, the caller holds an instance whose
\* endpoint is the one given (so that the operations of the example can be
\* called on it), and the invocation did not end in an error.
C13_ExportCalledAsFunction ==
    handle.how = "call" =>
        /\ handle.result = "instance"
        /\ endpoint = handle.given

-----------------------------------------------------------------------------
\* the first three arguments of calls i and j are the same
SameTriple(i, j) == SubSeq(calls[i].args, 1, 3) = SubSeq(calls[j].args, 1, 3)

\* call i is the remove operation `rm` and call j the add operation `add`,
\* made with the same service and credentials
RmAndAdd(i, j, rm, add) ==
    calls[i].op = rm /\ calls[j].op = add /\ SameTriple(i, j)

\* C14 as claimed: every remove-provider convenience operation posts to
\* 'rmpsp'; rmGCM's descriptor equals addGCM's for the same arguments and
\* rmADM's equals addADM's; rmAPNs's descriptor has the fields of addAPNs's
\* (service, pushservicetype, cert, key, sandbox), every field but sandbox
\* with the same value.
C14_RemoveSameShapeAsAdd ==
    \A i, j \in Held :
        /\ calls[i].op \in {"rmGCM", "rmAPNs", "rmADM"} =>
               /\ Req(i).url = endpoint \o "/rmpsp"
               /\ Req(i).method = "POST"
        /\ RmAndAdd(i, j, "rmGCM", "addGCM") => Sent(i) = Sent(j)
        /\ RmAndAdd(i, j, "rmADM", "addADM") => Sent(i) = Sent(j)
        /\ RmAndAdd(i, j, "rmAPNs", "addAPNs") =>
               /\ DOMAIN Sent(i).v = DOMAIN Sent(j).v
               /\ \A k \in DOMAIN Sent(j).v \ {"sandbox"} :
                      Sent(i).v[k] = Sent(j).v[k]

\* C14, amended: every remove-provider convenience operation posts to
\* 'rmpsp'; rmGCM's descriptor equals addGCM's for the same arguments and
\* rmADM's equals addADM's; rmAPNs's descriptor is addAPNs's without the
\* sandbox field: exactly service, pushservicetype: 'apns', cert and key,
\* each with the value addAPNs sends.
C14_RemoveAPNsWithoutSandbox ==
    \A i, j \in Held :
        /\ calls[i].op \in {"rmGCM", "rmAPNs", "rmADM"} =>
               /\ Req(i).url = endpoint \o "/rmpsp"
               /\ Req(i).method = "POST"
        /\ RmAndAdd(i, j, "rmGCM", "addGCM") => Sent(i) = Sent(j)
        /\ RmAndAdd(i, j, "rmADM", "addADM") => Sent(i) = Sent(j)
        /\ RmAndAdd(i, j, "rmAPNs", "addAPNs") =>
               /\ DOMAIN Sent(i).v = DOMAIN Sent(j).v \ {"sandbox"}
               /\ DOMAIN Sent(i).v =
                      {"service", "pushservicetype", "cert", "key"}
               /\ \A k \in DOMAIN Sent(i).v : Sent(i).v[k] = Sent(j).v[k]

\* a provider was added with addAPNs for the sandbox environment and removed
\* with rmAPNs, with the same service, certificate and key
C14_Witness ==
    \E i, j \in Held :
        /\ RmAndAdd(i, j, "rmAPNs", "addAPNs")
        /\ calls[j].args[4] = Bool(TRUE)
        /\ Sent(j).v.sandbox = Bool(TRUE)
        /\ calls[j].p2.state = "fulfilled"
        /\ Req(i).url = endpoint \o "/rmpsp"

-----------------------------------------------------------------------------
\* C15: for every argument value, a params that is not a mapping included, an
\* operation raises no error of its own: it issues its request and returns a
\* promise, which is rejected if and only if the transport rejected the
\* request.
C15_FailsExactlyWhenRequestFails ==
    \A i \in Held :
        /\ calls[i].p2.state # "threw"
        /\ Len(calls[i].reqs) = 1
        /\ calls[i].p2.state = "rejected" <=> calls[i].p1.state = "rejected"

-----------------------------------------------------------------------------
\* C16: a push that is handed an object the caller keeps passes that very
\* object to the transport as the body, and changes it in place: after the
\* call the caller's object has service and subscriber equal to the call's
\* two arguments, whatever it held under those keys before, every other key
\* with the value it had, and no key besides; what is sent is the object as
\* it is then; no other object of the caller changes.  This holds of every
\* such push, a later one that reuses the object included.
C16_PushChangesCallersMapping ==
    [][\A i \in Slots :
           (Started(i) /\ calls'[i].op = "push"
                       /\ calls'[i].args[3].t = "ref") =>
               LET a      == calls'[i].args
                   o      == a[3].v
                   others == DOMAIN heap[o] \ {"service", "subscriber"}
               IN  /\ calls'[i].reqs[1].body = Ref(o)
                   /\ calls'[i].reqs[1].sent = Obj(heap'[o])
                   /\ DOMAIN heap'[o] = others \cup {"service", "subscriber"}
                   /\ heap'[o].service = a[1]
                   /\ heap'[o].subscriber = a[2]
                   /\ \A k \in others : heap'[o][k] = heap[o][k]
                   /\ \A q \in ObjIds \ {o} : heap'[q] = heap[q]]_vars

\* the caller's object was pushed to unicorn/dom.cobb and then, reused, to
\* pegasus/ariadne: it now names the second pair, while the first request,
\* already answered, carried the first
C16_Witness ==
    \E i, j \in Held :
        /\ calls[i].op = "push"
        /\ calls[j].op = "push"
        /\ calls[i].args = <<Str("unicorn"), Str("dom.cobb"), Ref("o1")>>
        /\ calls[j].args = <<Str("pegasus"), Str("ariadne"), Ref("o1")>>
        /\ calls[i].p2.state = "fulfilled"
        /\ calls[j].p2.state = "pending"
        /\ Sent(i).v.service = Str("unicorn")
        /\ heap["o1"] = [title      |-> Str("Hi"),
                         service    |-> Str("pegasus"),
                         subscriber |-> Str("ariadne")]

=============================================================================
